---- MODULE Spec2Model ----
(***************************************************************************)
(* The clone pipeline of src/app/main.ts (case Commands.Clone): ref        *)
(* discovery, the want request, pack decoding, ref-delta reconstruction    *)
(* and checkout.  Buffers and strings are sequences of byte values        *)
(* (0..255); text is written as its ASCII codes.  JavaScript indices are   *)
(* 0-based: position i of a buffer b is b[i+1] here.                       *)
(***************************************************************************)
EXTENDS Integers, Sequences, FiniteSets, TLC

VARIABLES
    remote,     \* what the server serves: the bodies and their descriptions
    pc,         \* position of the clone in main.ts
    error,      \* the exception that ended the process, "" when none
    lines,      \* const lines (l.203)
    lineNo,     \* position of the for-of loop over lines (l.205), 1-based
    hashSet,    \* const hashSet (l.204): a JS Set, in insertion order
    request,    \* body of the POST to /git-upload-pack (l.240-246)
    byteArray,  \* const byteArray (l.265)
    packCount,  \* let packCount (l.262)
    count,      \* let count (l.263)
    idx,        \* let idx (l.264): the cursor into byteArray
    objects,    \* <directory>/.git/objects: hex hash -> deflated bytes
    gitFiles,   \* the other files under <directory>/.git: path -> bytes
    workTree,   \* files under <directory>/: path -> [data, mode]
    queue,      \* const queue (l.461)
    probe       \* input and result of a reader applied on its own

vars == <<remote, pc, error, lines, lineNo, hashSet, request, byteArray,
          packCount, count, idx, objects, gitFiles, workTree, queue, probe>>

(***************************************************************************)
(* Bytes, text and JavaScript's buffer operations                          *)
(***************************************************************************)

NUL == 0
LF == 10
SP == 32

RECURSIVE Pow(_, _)
Pow(b, e) == IF e = 0 THEN 1 ELSE b * Pow(b, e - 1)

Min(a, b) == IF a < b THEN a ELSE b
Max(a, b) == IF a > b THEN a ELSE b

\* buf[i] with i a 0-based index inside the buffer
Has(buf, i) == i >= 0 /\ i < Len(buf)
At(buf, i) == buf[i + 1]
\* buf[i] where JavaScript coerces it to an int32 (under >> and &):
\* a read past the end is undefined, which coerces to 0
AtBits(buf, i) == IF Has(buf, i) THEN buf[i + 1] ELSE 0

\* buf.slice(from, to): a negative index counts from the end, and both are
\* clamped to the buffer
SliceIndex(buf, i) == IF i < 0 THEN Max(Len(buf) + i, 0) ELSE Min(i, Len(buf))
Slice(buf, from, to) ==
    LET lo == SliceIndex(buf, from)
        hi == SliceIndex(buf, to)
    IN  IF lo >= hi THEN <<>> ELSE SubSeq(buf, lo + 1, hi)
\* buf.slice(from)
SliceFrom(buf, from) == Slice(buf, from, Len(buf))

RECURSIVE Concat(_)
Concat(seqs) == IF seqs = <<>> THEN <<>> ELSE Head(seqs) \o Concat(Tail(seqs))

\* s.startsWith(p)
StartsWith(s, p) == Len(s) >= Len(p) /\ SubSeq(s, 1, Len(p)) = p

\* the least element of a set of numbers, -1 when it is empty
LeastOrNone(S) == IF S = {} THEN -1 ELSE CHOOSE x \in S : \A y \in S : x <= y

\* first 0-based index >= from at which byte b occurs, -1 when none (indexOf)
IndexOf(buf, b, from) == LeastOrNone({i \in from..(Len(buf) - 1) : buf[i + 1] = b})

\* first 0-based index >= from at which the text p occurs in s, -1 when none
Find(s, p, from) ==
    LeastOrNone({i \in from..(Len(s) - Len(p)) : SubSeq(s, i + 1, i + Len(p)) = p})

\* the sum of f[lo..hi]
RECURSIVE SumOver(_, _, _)
SumOver(f, lo, hi) ==
    IF lo > hi THEN 0
    ELSE IF lo = hi THEN f[lo]
    ELSE SumOver(f, lo, (lo + hi) \div 2) + SumOver(f, (lo + hi) \div 2 + 1, hi)

\* s.split(sep) for a non-empty separator
RECURSIVE Split(_, _)
Split(s, sep) ==
    LET i == Find(s, sep, 0)
    IN  IF i < 0 THEN <<s>>
        ELSE <<SubSeq(s, 1, i)>> \o Split(SubSeq(s, i + Len(sep) + 1, Len(s)), sep)

\* parts.join(sep)
RECURSIVE Join(_, _)
Join(parts, sep) ==
    IF parts = <<>> THEN <<>>
    ELSE IF Len(parts) = 1 THEN parts[1]
    ELSE parts[1] \o sep \o Join(Tail(parts), sep)

IsSpace(c) == c \in {9, 10, 11, 12, 13, 32}
\* s.trim()
RECURSIVE TrimLeft(_)
TrimLeft(s) == IF s # <<>> /\ IsSpace(Head(s)) THEN TrimLeft(Tail(s)) ELSE s
RECURSIVE TrimRight(_)
TrimRight(s) ==
    IF s # <<>> /\ IsSpace(s[Len(s)]) THEN TrimRight(SubSeq(s, 1, Len(s) - 1)) ELSE s
Trim(s) == TrimRight(TrimLeft(s))

\* the decimal text of n >= 0 (template literal `${n}`)
RECURSIVE DecStr(_)
DecStr(n) == IF n < 10 THEN <<48 + n>> ELSE DecStr(n \div 10) \o <<48 + (n % 10)>>

HexDigit(n) == IF n < 10 THEN 48 + n ELSE 87 + n
\* buf.toString("hex")
ToHex(buf) ==
    [i \in 1..(2 * Len(buf)) |->
        IF i % 2 = 1 THEN HexDigit(buf[(i + 1) \div 2] \div 16)
        ELSE HexDigit(buf[(i + 1) \div 2] % 16)]

IsHexDigit(c) == (c >= 48 /\ c <= 57) \/ (c >= 97 /\ c <= 102) \/ (c >= 65 /\ c <= 70)
HexVal(c) == IF c <= 57 THEN c - 48 ELSE IF c >= 97 THEN c - 87 ELSE c - 55
\* parseInt(s, 16): the value of the longest prefix of hex digits; NaN (-1 here)
\* when s does not start with one
RECURSIVE ParseHexFrom(_, _)
ParseHexFrom(s, acc) ==
    IF s # <<>> /\ IsHexDigit(Head(s))
    THEN ParseHexFrom(Tail(s), acc * 16 + HexVal(Head(s)))
    ELSE acc
ParseInt16(s) ==
    IF s # <<>> /\ IsHexDigit(Head(s)) THEN ParseHexFrom(s, 0) ELSE -1

\* a file system directory as a function from name to content
Put(fs, name, content) ==
    [n \in DOMAIN fs \cup {name} |-> IF n = name THEN content ELSE fs[n]]

NoFiles == [n \in {} |-> <<>>]

(***************************************************************************)
(* zlib and SHA-1, the two libraries the program calls                     *)
(***************************************************************************)

\* Adler-32 of data, high byte first: a is 1 plus the sum of the bytes and b
\* the sum of the values a takes after each byte, both modulo 65521
Adler32(data) ==
    LET n == Len(data)
        a == (1 + SumOver(data, 1, n)) % 65521
        b == (n + SumOver([j \in 1..n |-> (n - j + 1) * data[j]], 1, n)) % 65521
    IN  <<b \div 256, b % 256, a \div 256, a % 256>>

\* zlib.deflateSync(data): a zlib stream (RFC 1950) holding one final stored
\* block (RFC 1951, BTYPE=00): CMF FLG, 01, LEN, NLEN, the data, Adler-32
deflateSync(data) ==
    LET n == Len(data)
    IN  <<120, 1, 1, n % 256, n \div 256, (65535 - n) % 256, (65535 - n) \div 256>>
        \o data \o Adler32(data)

\* the checks zlib makes of the two header bytes of a stream
ZlibHeaderOk(cmf, flg) ==
    /\ cmf % 16 = 8
    /\ cmf \div 16 <= 7
    /\ (cmf * 256 + flg) % 31 = 0
    /\ (flg \div 32) % 2 = 0

\* zlib.inflateSync(buf.slice(at), {info: true}): the inflated buffer and
\* engine.bytesRead, the number of input bytes the stream occupied; bytes
\* after the end of the stream are left alone.  ok is FALSE where zlib throws.
\* Streams of stored blocks are decoded; the inflater rejects anything else
\* the inputs of this model can put under the cursor.
inflateSync(buf, at) ==
    LET bad == [ok |-> FALSE, buffer |-> <<>>, bytesRead |-> 0]
        len == At(buf, at + 3) + 256 * At(buf, at + 4)
        nlen == At(buf, at + 5) + 256 * At(buf, at + 6)
        data == Slice(buf, at + 7, at + 7 + len)
    IN  IF ~Has(buf, at + 6) THEN bad
        ELSE IF ~ZlibHeaderOk(At(buf, at), At(buf, at + 1)) THEN bad
        ELSE IF At(buf, at + 2) # 1 THEN bad
        ELSE IF len + nlen # 65535 THEN bad
        ELSE IF ~Has(buf, at + 7 + len + 3) THEN bad
        ELSE IF Slice(buf, at + 7 + len, at + 11 + len) # Adler32(data) THEN bad
        ELSE [ok |-> TRUE, buffer |-> data, bytesRead |-> 11 + len]

\* crypto.createHash("sha1").update(content).digest(): a 20-byte digest of the
\* content.  SHA-1 itself is replaced by a position-weighted checksum; the
\* objects of this model have pairwise different digests (DigestsDiffer).
WeightedSum(content, w) ==
    SumOver([j \in 1..Len(content) |-> content[j] * (w + j - 1)], 1, Len(content))
Sha1(content) ==
    [i \in 1..20 |-> (WeightedSum(content, i) + 31 * i * Len(content)) % 256]

(***************************************************************************)
(* The object store                                                        *)
(***************************************************************************)

TypeCommit == <<99, 111, 109, 109, 105, 116>>   \* "commit"
TypeTree == <<116, 114, 101, 101>>              \* "tree"
TypeBlob == <<98, 108, 111, 98>>                \* "blob"

\* hashBuffer(buffer, type): {hash, content}
hashBuffer(buffer, type) ==
    LET metaData == type \o <<SP>> \o DecStr(Len(buffer)) \o <<NUL>>
        content == metaData \o buffer
    IN  [hash |-> ToHex(Sha1(content)), content |-> content]

\* .git/objects/<first two hex characters>/<the rest>
ObjectPath(objectHash) == <<Slice(objectHash, 0, 2), SliceFrom(objectHash, 2)>>

\* writeFileSync(hash, content, directory) applied to the store objs
writeFileSync(objs, hash, content) == Put(objs, ObjectPath(hash), deflateSync(content))

\* readFileSync(objectHash, toString, directory) applied to the store objs:
\* fs.readFileSync throws ENOENT when there is no such file
Inflated(r) ==
    IF r.ok THEN [ok |-> TRUE, err |-> "", data |-> r.buffer]
    ELSE [ok |-> FALSE, err |-> "ZlibError", data |-> <<>>]
readFileSync(objs, objectHash) ==
    IF ObjectPath(objectHash) \notin DOMAIN objs
    THEN [ok |-> FALSE, err |-> "ENOENT", data |-> <<>>]
    ELSE Inflated(inflateSync(objs[ObjectPath(objectHash)], 0))

(***************************************************************************)
(* The variable-length integer readers                                     *)
(***************************************************************************)

\* (v << move) for 0 <= v <= 127: JavaScript shifts a 32-bit integer by
\* move mod 32 and reads the result as a signed 32-bit integer
ShiftLeft32(v, move) ==
    LET s == move % 32
        low == IF s <= 24 THEN v ELSE v % Pow(2, 32 - s)
    IN  IF s <= 24 THEN low * Pow(2, s)
        ELSE IF low >= Pow(2, 31 - s)
        THEN (((low - Pow(2, 31 - s)) * Pow(2, s)) - 1073741824) - 1073741824
        ELSE low * Pow(2, s)

\* the continuation loop of the pack entry header (l.289-297), entered with
\* idx on the byte before the next continuation byte
RECURSIVE HeaderLoop(_, _, _, _)
HeaderLoop(buf, i, move, size) ==
    LET b == AtBits(buf, i + 1)
        size2 == size + ShiftLeft32(b % 128, move + 7)
    IN  IF b \div 128 = 0 THEN [size |-> size2, idx |-> i + 1]
        ELSE HeaderLoop(buf, i + 1, move + 7, size2)

\* l.283-299: the type and size of the entry at idx, and idx after the header
ReadEntryHeader(buf, i) ==
    LET b == AtBits(buf, i)
        type == (b \div 16) % 8
        r == IF b \div 128 = 1 THEN HeaderLoop(buf, i, -3, b % 16)
             ELSE [size |-> b % 16, idx |-> i]
    IN  [type |-> type, size |-> r.size, idx |-> r.idx + 1]

\* l.350-363 and l.365-377: a length of the delta payload read at dIdx, and
\* dIdx after it
RECURSIVE DeltaLengthLoop(_, _, _, _)
DeltaLengthLoop(data, dIdx, lIdx, len) ==
    LET b == AtBits(data, dIdx)
        len2 == len + (b % 128) * Pow(128, lIdx)
    IN  IF b \div 128 = 0 THEN [value |-> len2, dIdx |-> dIdx + 1]
        ELSE DeltaLengthLoop(data, dIdx + 1, lIdx + 1, len2)
ReadDeltaLength(data, dIdx) == DeltaLengthLoop(data, dIdx, 0, 0)

(***************************************************************************)
(* Ref-delta reconstruction (case 7, l.348-436)                            *)
(***************************************************************************)

\* l.405-416: the offset and size of a copy instruction byte0 whose argument
\* bytes start at dIdx.  A field is -1 once it is NaN: an argument byte read
\* past the end of the payload is undefined, and undefined * 256^i is NaN.
RECURSIVE CopyArgs(_, _, _, _, _, _)
CopyArgs(data, dIdx, byte0, i, offset, size) ==
    IF i = 7 THEN [offset |-> offset, size |-> size, dIdx |-> dIdx]
    ELSE IF (byte0 \div Pow(2, i)) % 2 = 0
    THEN CopyArgs(data, dIdx, byte0, i + 1, offset, size)
    ELSE IF i < 4
    THEN CopyArgs(data, dIdx + 1, byte0, i + 1,
                  IF offset < 0 \/ ~Has(data, dIdx) THEN -1
                  ELSE offset + At(data, dIdx) * Pow(256, i),
                  size)
    ELSE CopyArgs(data, dIdx + 1, byte0, i + 1, offset,
                  IF size < 0 \/ ~Has(data, dIdx) THEN -1
                  ELSE size + At(data, dIdx) * Pow(256, i - 4))

\* a variant of copyBytesFrom that copies from the start of view
copyBytesFromStart(view, offset, length) ==
    IF length < 0 THEN [ok |-> FALSE, bytes |-> <<>>]
    ELSE [ok |-> TRUE, bytes |-> Slice(view, 0, length)]

\* Buffer.copyBytesFrom(view, offset, length): the bytes of view from offset,
\* at most length of them; it throws (ok FALSE) for a NaN argument it looks at
copyBytesFrom(view, offset, length) ==
    IF Len(view) = 0 THEN [ok |-> TRUE, bytes |-> <<>>]
    ELSE IF offset < 0 THEN [ok |-> FALSE, bytes |-> <<>>]
    ELSE IF offset >= Len(view) THEN [ok |-> TRUE, bytes |-> <<>>]
    ELSE IF length < 0 THEN [ok |-> FALSE, bytes |-> <<>>]
    ELSE [ok |-> TRUE, bytes |-> Slice(view, offset, offset + length)]

\* l.397-430: the copy/insert loop from dIdx on, appending to buffer
RECURSIVE InstructionLoop(_, _, _, _)
InstructionLoop(data, dIdx, readBuffer, buffer) ==
    IF ~(dIdx < Len(data)) THEN [ok |-> TRUE, buffer |-> buffer]
    ELSE LET byte0 == At(data, dIdx)
             command == byte0 \div 128
         IN  IF command = 1
             THEN LET a == CopyArgs(data, dIdx + 1, byte0, 0, 0, 0)
                      c == copyBytesFrom(readBuffer, a.offset, a.size)
                  IN  IF ~c.ok THEN [ok |-> FALSE, buffer |-> buffer]
                      ELSE InstructionLoop(data, a.dIdx, readBuffer, buffer \o c.bytes)
             ELSE LET size == byte0
                  IN  InstructionLoop(data, dIdx + 1 + size, readBuffer,
                                      buffer \o Slice(data, dIdx + 1, dIdx + 1 + size))

\* l.350-377: both lengths are read; nothing but the log uses them
DeltaLengths(decompressedData) ==
    LET s == ReadDeltaLength(decompressedData, 0)
        t == ReadDeltaLength(decompressedData, s.dIdx)
    IN  [sourceLength |-> s.value, targetLength |-> t.value, dIdx |-> t.dIdx]

\* the outcome of an entry that stores the object h = {hash, content}
Stored(objs, h) ==
    [ok |-> TRUE, err |-> "", objects |-> writeFileSync(objs, h.hash, h.content)]
\* the outcome of an entry that stores nothing
Skipped(objs) == [ok |-> TRUE, err |-> "", objects |-> objs]
\* the outcome of an entry in which a call throws
Thrown(objs, err) == [ok |-> FALSE, err |-> err, objects |-> objs]

\* l.384-393: the type of the base object r (the text before the first space
\* of its header) and its payload (what follows the header's NUL)
BaseOf(r) ==
    LET nullIdx == IndexOf(r.data, NUL, 0)
    IN  [objectType |-> Split(Slice(r.data, 0, nullIdx), <<SP>>)[1],
         readBuffer |-> SliceFrom(r.data, nullIdx + 1)]

\* l.431-432: the reconstructed bytes are stored under the type of the base
\* a variant of StoreDelta that takes "blob" for the type of every delta
StoreDeltaAsBlob(objs, objectType, out) ==
    IF ~out.ok THEN Thrown(objs, "RangeError")
    ELSE Stored(objs, hashBuffer(out.buffer, TypeBlob))

StoreDelta(objs, objectType, out) ==
    IF ~out.ok THEN Thrown(objs, "RangeError")
    ELSE Stored(objs, hashBuffer(out.buffer, objectType))

\* l.384-432: the delta applied to the base object
ApplyToBase(objs, decompressedData, dIdx, base) ==
    StoreDelta(objs, base.objectType,
               InstructionLoop(decompressedData, dIdx, base.readBuffer, <<>>))

\* l.383: the read of the base object, which throws when it is not stored
\* a variant of OnBase that passes over a delta whose base cannot be read
OnBaseOrSkip(objs, decompressedData, dIdx, r) ==
    IF ~r.ok THEN Skipped(objs)
    ELSE ApplyToBase(objs, decompressedData, dIdx, BaseOf(r))

OnBase(objs, decompressedData, dIdx, r) ==
    IF ~r.ok THEN Thrown(objs, r.err)
    ELSE ApplyToBase(objs, decompressedData, dIdx, BaseOf(r))

\* case 7 as a whole (l.348-436): the store after the entry, or the exception
RefDelta(objs, reference, decompressedData) ==
    OnBase(objs, decompressedData, DeltaLengths(decompressedData).dIdx,
           readFileSync(objs, reference))

(***************************************************************************)
(* One iteration of the pack entry loop (l.278-441)                        *)
(***************************************************************************)

\* l.318-437: the switch on the entry type
Dispatch(objs, type, reference, decompressedData) ==
    CASE type = 1 -> Stored(objs, hashBuffer(decompressedData, TypeCommit))
      [] type = 2 -> Stored(objs, hashBuffer(decompressedData, TypeTree))
      [] type = 3 -> Stored(objs, hashBuffer(decompressedData, TypeBlob))
      [] type = 7 -> RefDelta(objs, reference, decompressedData)
      [] OTHER -> Skipped(objs)

\* l.439: the cursor moves by engine.bytesRead after the switch.  When a call
\* throws, the cursor stays where it was at the call.
AfterDispatch(at, bytesRead, d) ==
    [ok |-> d.ok, err |-> d.err, objects |-> d.objects,
     idx |-> IF d.ok THEN at + bytesRead ELSE at]

\* l.312-439: the entry is inflated at the cursor and dispatched on its type
InflateAt(objs, type, reference, at, z) ==
    IF ~z.ok THEN [ok |-> FALSE, err |-> "ZlibError", objects |-> objs, idx |-> at]
    ELSE AfterDispatch(at, z.bytesRead, Dispatch(objs, type, reference, z.buffer))

\* l.302-317: a ref-delta's 20 bytes of base hash follow its header; for an
\* offset-delta nothing is read (l.308-310)
AfterHeader(buf, objs, h) ==
    IF h.type = 7
    THEN InflateAt(objs, h.type, ToHex(Slice(buf, h.idx, h.idx + 20)), h.idx + 20,
                   inflateSync(buf, h.idx + 20))
    ELSE InflateAt(objs, h.type, <<>>, h.idx, inflateSync(buf, h.idx))

\* the iteration that starts with the cursor at i: the cursor and the store
\* after it, or the exception
EntryIteration(buf, i, objs) == AfterHeader(buf, objs, ReadEntryHeader(buf, i))

(***************************************************************************)
(* The remote: what the two requests are answered with                     *)
(***************************************************************************)

\* longest run of entries a served pack appends to its leading objects
MaxTail == 2

Flush == <<48, 48, 48, 48>>                         \* "0000"
TextHEAD == <<72, 69, 65, 68>>                      \* "HEAD"
TextPACK == <<80, 65, 67, 75>>                      \* "PACK"
TextNAK == <<48, 48, 48, 56, 78, 65, 75, 10>>       \* "0008NAK\n"
TextRef == <<114, 101, 102, 58, 32>>                \* "ref: "
TextSymref == <<115, 121, 109, 114, 101, 102, 61>>  \* "symref="
TextWant == <<48, 48, 51, 50, 119, 97, 110, 116, 32>>    \* "0032want "
TextDone == <<48, 48, 48, 57, 100, 111, 110, 101, 10>>   \* "0009done\n"
ModeDir == <<52, 48, 48, 48, 48>>                   \* "40000"

\* the raw digest of the object of the given type and payload
DigestOf(type, payload) == Sha1(hashBuffer(payload, type).content)

PayloadA == <<104, 105, 10>>                        \* "hi\n"
PayloadB == <<121, 111>>                            \* "yo"
\* "100755 run\0" <digest of A>
PayloadS == <<49, 48, 48, 55, 53, 53, 32, 114, 117, 110, 0>> \o DigestOf(TypeBlob, PayloadA)
\* "100644 a.txt\0" <digest of A> "40000 d\0" <digest of S>
PayloadT ==
    <<49, 48, 48, 54, 52, 52, 32, 97, 46, 116, 120, 116, 0>> \o DigestOf(TypeBlob, PayloadA)
    \o <<52, 48, 48, 48, 48, 32, 100, 0>> \o DigestOf(TypeTree, PayloadS)
\* "tree <hash of T>\nauthor a\n\nm\n"
PayloadC ==
    <<116, 114, 101, 101, 32>> \o ToHex(DigestOf(TypeTree, PayloadT))
    \o <<10, 97, 117, 116, 104, 111, 114, 32, 97, 10, 10, 109, 10>>
\* a tree whose one file has a space in its name: "100644 a b\0" <digest of A>
PayloadU == <<49, 48, 48, 54, 52, 52, 32, 97, 32, 98, 0>> \o DigestOf(TypeBlob, PayloadA)
\* "tree <hash of U>\nauthor a\n\nm\n"
PayloadD ==
    <<116, 114, 101, 101, 32>> \o ToHex(DigestOf(TypeTree, PayloadU))
    \o <<10, 97, 117, 116, 104, 111, 114, 32, 97, 10, 10, 109, 10>>
PayloadTag == <<116, 97, 103, 32, 118, 10>>         \* "tag v\n"

\* delta payloads: source length, target length, instructions
\* copy 2 bytes from offset 0, insert "xyz": against A it yields "hixyz"
DeltaGood == <<3, 5, 144, 2, 3, 120, 121, 122>>
\* the same with a source length that is not A's
DeltaBadSource == <<4, 5, 144, 2, 3, 120, 121, 122>>
\* the same with a target length that is not what the instructions produce
DeltaBadTarget == <<3, 9, 144, 2, 3, 120, 121, 122>>
\* against B: copy 2 bytes from offset 0, insert "!"
DeltaOnB == <<2, 3, 144, 2, 1, 33>>
\* against T: copy its first 33 bytes, the entry of a.txt
DeltaOnT == <<Len(PayloadT), 33, 144, 33>>

\* the name of the object type a pack entry of kind 1, 2 or 3 carries
KindName(kind) ==
    CASE kind = 1 -> TypeCommit
      [] kind = 2 -> TypeTree
      [] kind = 3 -> TypeBlob

\* a full object (kind 1, 2, 3) or a tag (kind 4)
Entry(kind, payload) ==
    [kind |-> kind, payload |-> payload, base |-> <<>>, ofs |-> <<>>,
     baseKind |-> 0, basePayload |-> <<>>, target |-> <<>>]
\* a ref-delta: the delta payload, the base object it names by its digest, and
\* the bytes its instructions yield against that base
RefDeltaEntry(payload, baseKind, basePayload, target) ==
    [kind |-> 7, payload |-> payload, base |-> DigestOf(KindName(baseKind), basePayload),
     ofs |-> <<>>, baseKind |-> baseKind, basePayload |-> basePayload, target |-> target]
\* an offset-delta: its header is followed by the encoded distance to its base
OfsDeltaEntry(payload, ofs) ==
    [kind |-> 6, payload |-> payload, base |-> <<>>, ofs |-> ofs,
     baseKind |-> 0, basePayload |-> <<>>, target |-> <<>>]

EntryC == Entry(1, PayloadC)
EntryT == Entry(2, PayloadT)
EntryS == Entry(2, PayloadS)
EntryA == Entry(3, PayloadA)
EntryB == Entry(3, PayloadB)
EntryTag == Entry(4, PayloadTag)
EntryOfs == OfsDeltaEntry(DeltaGood, <<5>>)
EntryDeltaA == RefDeltaEntry(DeltaGood, 3, PayloadA, <<104, 105, 120, 121, 122>>)
EntryDeltaB == RefDeltaEntry(DeltaOnB, 3, PayloadB, <<121, 111, 33>>)
EntryDeltaT == RefDeltaEntry(DeltaOnT, 2, PayloadT, SubSeq(PayloadT, 1, 33))
EntryBadSource == RefDeltaEntry(DeltaBadSource, 3, PayloadA, <<104, 105, 120, 121, 122>>)
EntryBadTarget == RefDeltaEntry(DeltaBadTarget, 3, PayloadA, <<104, 105, 120, 121, 122>>)

EntryU == Entry(2, PayloadU)
EntryD == Entry(1, PayloadD)

LeadingObjects == <<EntryC, EntryT, EntryS, EntryA>>
\* the commit D, its tree and the blob of its file
SpacedObjects == <<EntryD, EntryU, EntryA>>
TailEntries ==
    {EntryB, EntryTag, EntryOfs, EntryDeltaA, EntryDeltaB, EntryDeltaT,
     EntryBadSource, EntryBadTarget}

RECURSIVE SeqsUpTo(_, _)
SeqsUpTo(S, n) ==
    IF n = 0 THEN {<<>>}
    ELSE LET shorter == SeqsUpTo(S, n - 1)
         IN  shorter \cup {Append(q, x) : q \in shorter, x \in S}

PackSet ==
    {lead \o tail : lead \in {<<>>, LeadingObjects}, tail \in SeqsUpTo(TailEntries, MaxTail)}

\* the size continuation of a pack entry header: 7 bits a byte, low bits first
RECURSIVE Varint7(_)
Varint7(n) == IF n < 128 THEN <<n>> ELSE <<128 + (n % 128)>> \o Varint7(n \div 128)

EntryHeaderBytes(kind, size) ==
    IF size < 16 THEN <<kind * 16 + size>>
    ELSE <<128 + kind * 16 + (size % 16)>> \o Varint7(size \div 16)

EntryBytes(e) ==
    EntryHeaderBytes(e.kind, Len(e.payload)) \o e.base \o e.ofs \o deflateSync(e.payload)

BigEndian32(n) ==
    <<n \div 16777216, (n \div 65536) % 256, (n \div 256) % 256, n % 256>>

\* the pack stream: magic, version 2, entry count, the entries, the checksum
PackStream(entries, magic) ==
    LET body == (IF magic THEN TextPACK ELSE <<80, 65, 67, 88>>)
                \o BigEndian32(2) \o BigEndian32(Len(entries))
                \o Concat([k \in 1..Len(entries) |-> EntryBytes(entries[k])])
    IN  body \o Sha1(body)

\* the response to the upload-pack request
PackResponse(entries, nak, magic) ==
    (IF nak THEN TextNAK ELSE <<>>) \o PackStream(entries, magic)

Hex4(n) ==
    <<HexDigit(n \div 4096), HexDigit((n \div 256) % 16), HexDigit((n \div 16) % 16),
      HexDigit(n % 16)>>
PktLine(payload) == Hex4(Len(payload) + 4) \o payload

HashC == ToHex(DigestOf(TypeCommit, PayloadC))
HashD == ToHex(DigestOf(TypeCommit, PayloadD))
\* a hash with the text of a flush marker in it
HashZ == [i \in 1..40 |-> IF i \in 3..8 THEN 48 ELSE 98]
RefM == <<114, 101, 102, 115, 47, 104, 101, 97, 100, 115, 47, 109>>  \* "refs/heads/m"
RefD == <<114, 101, 102, 115, 47, 104, 101, 97, 100, 115, 47, 100>>  \* "refs/heads/d"
CapMultiAck == <<109, 117, 108, 116, 105, 95, 97, 99, 107>>          \* "multi_ack"
CapAgent == <<97, 103, 101, 110, 116, 61, 103>>                      \* "agent=g"
CapSymrefM == TextSymref \o TextHEAD \o <<58>> \o RefM     \* "symref=HEAD:refs/heads/m"

Ref(hash, name) == [hash |-> hash, name |-> name]
\* an advertisement: the refs in order, and the capabilities of its first line
Advert(refs, caps) == [refs |-> refs, caps |-> caps]

AdvertSymbolic ==
    Advert(<<Ref(HashC, TextHEAD), Ref(HashC, RefM)>>, <<CapMultiAck, CapSymrefM, CapAgent>>)
AdvertDetached ==
    Advert(<<Ref(HashC, TextHEAD), Ref(HashZ, RefD), Ref(HashC, RefM)>>, <<CapMultiAck>>)
AdvertNoHead ==
    Advert(<<Ref(HashZ, RefD), Ref(HashC, RefM)>>, <<CapAgent>>)
\* HEAD and its branch at the commit D
AdvertSpaced ==
    Advert(<<Ref(HashD, TextHEAD), Ref(HashD, RefM)>>, <<CapSymrefM, CapAgent>>)
AdvertSet == {AdvertSymbolic, AdvertDetached, AdvertNoHead}

\* the response to GET /info/refs?service=git-upload-pack
RefsResponse(advert) ==
    LET line(k) == advert.refs[k].hash \o <<SP>> \o advert.refs[k].name
                   \o (IF k = 1 THEN <<NUL>> \o Join(advert.caps, <<SP>>) ELSE <<>>)
                   \o <<LF>>
    IN  PktLine(<<35, 32, 115, 101, 114, 118, 105, 99, 101, 61, 103, 105, 116, 45, 117,
                  112, 108, 111, 97, 100, 45, 112, 97, 99, 107, 10>>)
        \o Flush
        \o Concat([k \in 1..Len(advert.refs) |-> PktLine(line(k))])
        \o Flush

Remote(advert, entries, nak, magic) ==
    [advert |-> advert, entries |-> entries, nak |-> nak, magic |-> magic,
     refs |-> RefsResponse(advert), pack |-> PackResponse(entries, nak, magic)]

\* every pack behind the first advertisement, every advertisement and
\* framing of the response in front of the leading objects, and the
\* repository of the commit D
Remotes ==
    {Remote(AdvertSymbolic, p, TRUE, TRUE) : p \in PackSet}
    \cup {Remote(a, LeadingObjects \o <<EntryB>>, n, m) :
            a \in AdvertSet, n \in BOOLEAN, m \in BOOLEAN}
    \cup {Remote(AdvertSpaced, SpacedObjects, n, TRUE) : n \in BOOLEAN}

(***************************************************************************)
(* The clone (case Commands.Clone, l.195-491)                              *)
(***************************************************************************)

Init ==
    /\ remote \in Remotes
    /\ pc = "start"
    /\ error = <<>>
    /\ lines = <<>>
    /\ lineNo = 1
    /\ hashSet = <<>>
    /\ request = <<>>
    /\ byteArray = <<>>
    /\ packCount = 0
    /\ count = 0
    /\ idx = 0
    /\ objects = NoFiles
    /\ gitFiles = NoFiles
    /\ workTree = NoFiles
    /\ queue = <<>>
    /\ probe = <<>>

\* an uncaught exception ends the process: stage is where it was thrown
Throw(stage, err) == pc' = "failed" /\ error' = <<stage, err>>

\* l.203: body.split("0000").slice(1).join("0000").split("\n")
RefLines(body) == Split(Join(Tail(Split(body, Flush)), Flush), <<LF>>)

\* l.199-204: the advertisement is fetched and split into lines
FetchRefs ==
    /\ pc = "start"
    /\ lines' = RefLines(remote.refs)
    /\ lineNo' = 1
    /\ hashSet' = <<>>
    /\ pc' = "refs"
    /\ UNCHANGED <<remote, error, request, byteArray, packCount, count, idx, objects,
                   gitFiles, workTree, queue, probe>>

\* a variant of SetAdd that keeps a list: a hash is added each time it is seen
ListAdd(set, hash) == Append(set, hash)

\* hashSet.add(hash)
SetAdd(set, hash) ==
    IF \E k \in 1..Len(set) : set[k] = hash THEN set ELSE Append(set, hash)

\* l.217: capList.find((c) => c.startsWith("symref=")), <<>> when undefined
RECURSIVE FindSymref(_)
FindSymref(capList) ==
    IF capList = <<>> THEN <<>>
    ELSE IF StartsWith(Head(capList), TextSymref) THEN Head(capList)
    ELSE FindSymref(Tail(capList))

\* a variant of RefFile that persists the hash of every ref, HEAD with them
RefFileOfHash(hash, ref, capList) == [path |-> ref, content |-> hash \o <<LF>>]

\* l.215-232: the file a line of the advertisement is persisted in
RefFile(hash, ref, capList) ==
    LET symref == FindSymref(capList)
    IN  IF ref = TextHEAD
        THEN [path |-> TextHEAD,
              content |-> IF symref # <<>> THEN TextRef \o SliceFrom(symref, 12) \o <<LF>>
                          ELSE hash \o <<LF>>]
        ELSE [path |-> ref, content |-> hash \o <<LF>>]

\* l.205-233: one iteration of the loop over the lines.  A line of size 0
\* breaks the loop, and so does the end of the lines.
RefLine ==
    /\ pc = "refs"
    /\ LET parts == Split(lines[lineNo], <<NUL>>)
           content == parts[1]
           capListStr == IF Len(parts) >= 2 THEN parts[2] ELSE <<>>
           size == ParseInt16(Slice(content, 0, 4))
           hash == Slice(content, 4, 44)
           ref == SliceFrom(content, 45)
           capList == Split(capListStr, <<SP>>)
           file == RefFile(hash, ref, capList)
       IN  IF size = 0
           THEN /\ pc' = "want"
                /\ UNCHANGED <<error, lineNo, hashSet, gitFiles>>
           ELSE IF file.path = <<>>
           THEN \* writing to <directory>/.git/ itself: EISDIR
                /\ Throw("refs", "EISDIR")
                /\ hashSet' = SetAdd(hashSet, hash)
                /\ UNCHANGED <<lineNo, gitFiles>>
           ELSE /\ hashSet' = SetAdd(hashSet, hash)
                /\ gitFiles' = Put(gitFiles, file.path, file.content)
                /\ lineNo' = lineNo + 1
                /\ pc' = IF lineNo = Len(lines) THEN "want" ELSE "refs"
                /\ UNCHANGED error
    /\ UNCHANGED <<remote, lines, request, byteArray, packCount, count, idx, objects,
                   workTree, queue, probe>>

\* l.234: hashSet.values().toArray()
WantHashes(set) == set

\* l.240-246: the body of the upload-pack request
RequestBody(wantHashes) ==
    Concat([k \in 1..Len(wantHashes) |-> TextWant \o wantHashes[k] \o <<LF>>])
    \o Flush \o TextDone

\* l.234-261: the request is sent and the response read to its end
SendWants ==
    /\ pc = "want"
    /\ request' = RequestBody(WantHashes(hashSet))
    /\ pc' = "packhdr"
    /\ UNCHANGED <<remote, error, lines, lineNo, hashSet, byteArray, packCount, count,
                   idx, objects, gitFiles, workTree, queue, probe>>

\* l.266: the cursor after the optional "0008NAK\n"
PackStart(buf) == IF Slice(buf, 0, 8) = TextNAK THEN 8 ELSE 0

\* l.267-274: the entry count and the cursor after the pack header; without
\* the magic both stay as they are
PackHeader(buf) ==
    LET i == PackStart(buf)
    IN  IF Slice(buf, i, i + 4) = TextPACK
        THEN [packCount |-> IF Has(buf, i + 11)
                            THEN At(buf, i + 8) * 256 * 256 * 256
                                 + At(buf, i + 9) * 256 * 256
                                 + At(buf, i + 10) * 256 + At(buf, i + 11)
                            ELSE -1,   \* NaN: no count is below it
              idx |-> i + 12]
        ELSE [packCount |-> 0, idx |-> i]

\* l.262-276: the response becomes byteArray and its header is read
ParsePackHeader ==
    /\ pc = "packhdr"
    /\ byteArray' = remote.pack
    /\ \E h \in {PackHeader(remote.pack)} :
           /\ packCount' = h.packCount
           /\ idx' = h.idx
    /\ count' = 0
    /\ pc' = "entries"
    /\ UNCHANGED <<remote, error, lines, lineNo, hashSet, request, objects, gitFiles,
                   workTree, queue, probe>>

\* l.278-441: one iteration of the entry loop
PackEntry ==
    /\ pc = "entries"
    /\ count < packCount
    /\ count' = count + 1
    /\ \E r \in {EntryIteration(byteArray, idx, objects)} :
           /\ idx' = r.idx
           /\ objects' = r.objects
           /\ IF r.ok THEN UNCHANGED <<pc, error>> ELSE Throw("entries", r.err)
    /\ UNCHANGED <<remote, lines, lineNo, hashSet, request, byteArray, packCount,
                   gitFiles, workTree, queue, probe>>

\* l.448-459: the hash HEAD resolves to, through one symbolic reference
ResolveHead(files) ==
    LET head == Trim(files[TextHEAD])
        path == SliceFrom(head, 5)
    IN  IF TextHEAD \notin DOMAIN files THEN [ok |-> FALSE, hash |-> <<>>]
        ELSE IF ~StartsWith(head, TextRef) THEN [ok |-> TRUE, hash |-> head]
        ELSE IF path \notin DOMAIN files THEN [ok |-> FALSE, hash |-> <<>>]
        ELSE [ok |-> TRUE, hash |-> Trim(files[path])]

\* l.463: commit.split("\0")[1].split("\n")[0].split(" ")[1]; ok is FALSE
\* where a part is undefined
CommitTree(commit) ==
    LET byNul == Split(commit, <<NUL>>)
        words == Split(Split(byNul[2], <<LF>>)[1], <<SP>>)
    IN  IF Len(byNul) < 2 \/ Len(words) < 2 THEN [ok |-> FALSE, hash |-> <<>>]
        ELSE [ok |-> TRUE, hash |-> words[2]]

\* l.448-463: the hash of the tree of the commit HEAD resolves to, or the
\* exception
HeadTree(objs, files) ==
    LET treeOf(commit) ==
            IF ~commit.ok THEN [ok |-> FALSE, err |-> commit.err, hash |-> <<>>]
            ELSE [ok |-> CommitTree(commit.data).ok, err |-> "TypeError",
                  hash |-> CommitTree(commit.data).hash]
        commitOf(head) ==
            IF ~head.ok THEN [ok |-> FALSE, err |-> "ENOENT", hash |-> <<>>]
            ELSE treeOf(readFileSync(objs, head.hash))
    IN  commitOf(ResolveHead(files))

\* l.448-466, reached when the entry loop ends: HEAD is resolved, the commit
\* read and the queue started with its tree.  (A tree hash that is undefined
\* throws here, not at the first read of the queue; nothing happens between.)
CheckoutStart ==
    /\ pc = "entries"
    /\ ~(count < packCount)
    /\ \E tree \in {HeadTree(objects, gitFiles)} :
           IF ~tree.ok THEN Throw("checkout", tree.err) /\ UNCHANGED queue
           ELSE /\ queue' = <<[hash |-> tree.hash, path |-> <<>>]>>
                /\ pc' = "checkout"
                /\ UNCHANGED error
    /\ UNCHANGED <<remote, lines, lineNo, hashSet, request, byteArray, packCount, count,
                   idx, objects, gitFiles, workTree, probe>>

\* parseInt(mode, 8) for a mode of octal digits
RECURSIVE ParseOctal(_, _)
ParseOctal(s, acc) ==
    IF s # <<>> /\ Head(s) >= 48 /\ Head(s) <= 55
    THEN ParseOctal(Tail(s), acc * 8 + (Head(s) - 48))
    ELSE acc

\* l.472-487: the entries of the tree objList from lIdx on, applied in order
\* to the working tree wt and the queue q; it stops where a blob read throws
RECURSIVE TreeLoop(_, _, _, _, _, _)
\* l.474-476: the mode, name and hash of the entry at lIdx, whose NUL is at
\* nullIdx
TreeEntry(objList, lIdx, nullIdx) ==
    LET words == Split(Slice(objList, lIdx, nullIdx), <<SP>>)
    IN  [mode |-> words[1],
         name |-> IF Len(words) >= 2 THEN words[2] ELSE <<>>,
         hash |-> ToHex(Slice(objList, nullIdx + 1, nullIdx + 21)),
         next |-> nullIdx + 21]
\* l.482-485: the file written for a blob entry
BlobFile(content, mode) ==
    [data |-> SliceFrom(content.data, IndexOf(content.data, NUL, 0) + 1),
     mode |-> ParseOctal(mode, 0)]
\* l.477-486: the entry e applied, and the loop continued after it
TreeStep(objs, objList, e, content, path, wt, q) ==
    IF e.mode = ModeDir
    THEN TreeLoop(objs, objList, e.next, path, wt,
                  Append(q, [hash |-> e.hash, path |-> path \o e.name \o <<47>>]))
    ELSE IF ~content.ok
    THEN [ok |-> FALSE, err |-> content.err, workTree |-> wt, queue |-> q]
    ELSE TreeLoop(objs, objList, e.next, path,
                  Put(wt, path \o e.name, BlobFile(content, e.mode)), q)
TreeAt(objs, objList, e, path, wt, q) ==
    TreeStep(objs, objList, e, readFileSync(objs, e.hash), path, wt, q)
TreeLoop(objs, objList, lIdx, path, wt, q) ==
    IF ~(lIdx < Len(objList)) THEN [ok |-> TRUE, err |-> "", workTree |-> wt, queue |-> q]
    ELSE TreeAt(objs, objList, TreeEntry(objList, lIdx, IndexOf(objList, NUL, lIdx)),
                path, wt, q)

\* l.469-487: the tree of the queue's first item is read and walked
WalkTree(objs, objList, path, wt, rest) ==
    IF ~objList.ok
    THEN [ok |-> FALSE, err |-> objList.err, workTree |-> wt, queue |-> rest]
    ELSE TreeLoop(objs, objList.data, IndexOf(objList.data, NUL, 0) + 1, path, wt, rest)
CheckoutItem(objs, item, wt, rest) ==
    WalkTree(objs, readFileSync(objs, item.hash), item.path, wt, rest)

\* l.468-488: one iteration of the loop over the queue
CheckoutTree ==
    /\ pc = "checkout"
    /\ queue # <<>>
    /\ \E r \in {CheckoutItem(objects, Head(queue), workTree, Tail(queue))} :
           /\ workTree' = r.workTree
           /\ queue' = r.queue
           /\ IF ~r.ok THEN Throw("checkout", r.err)
              ELSE /\ pc' = IF r.queue = <<>> THEN "done" ELSE "checkout"
                   /\ UNCHANGED error
    /\ UNCHANGED <<remote, lines, lineNo, hashSet, request, byteArray, packCount, count,
                   idx, objects, gitFiles, probe>>

Next ==
    \/ FetchRefs
    \/ RefLine
    \/ SendWants
    \/ ParsePackHeader
    \/ PackEntry
    \/ CheckoutTree
    \/ CheckoutStart

Spec == Init /\ [][Next]_vars

\* ---------------------------------------------------------------------------
\* The pack as the remote laid it out, against which the claims about the
\* entry loop are stated
\* ---------------------------------------------------------------------------

\* the offset in the response of the first header byte of entry k; for
\* k = Len(remote.entries) + 1 the offset of the trailing checksum
EntryOffset(k) ==
    (IF remote.nak THEN 8 ELSE 0) + 12
    + SumOver([j \in 1..Len(remote.entries) |-> Len(EntryBytes(remote.entries[j]))], 1, k - 1)

\* the offset of the first byte of entry k's compressed stream
CompressedOffset(k) == EntryOffset(k + 1) - Len(deflateSync(remote.entries[k].payload))

\* the iteration over entry number count ended in an exception
IterationThrew == pc = "failed" /\ error[1] = "entries"

\* the loop over the entries has been left at its end
LoopLeft == pc \in {"checkout", "done"} \/ (pc = "failed" /\ error[1] = "checkout")

\* the iteration over entry k has run
Reached(k) == remote.magic /\ k \in 1..Len(remote.entries) /\ count >= k

\* the stored form and the name of the object of a type and a payload
ExpectedContent(type, payload) == type \o <<SP>> \o DecStr(Len(payload)) \o <<NUL>> \o payload
ExpectedPath(type, payload) == ObjectPath(ToHex(Sha1(ExpectedContent(type, payload))))

\* the object entry e leaves in the store when its iteration succeeds
Produced(e) ==
    IF e.kind \in {1, 2, 3} THEN {ExpectedPath(KindName(e.kind), e.payload)}
    ELSE IF e.kind = 7 THEN {ExpectedPath(KindName(e.baseKind), e.target)}
    ELSE {}
ProducedBefore(k) == UNION {Produced(remote.entries[j]) : j \in 1..(k - 1)}

\* entry k is a ref-delta whose base an earlier entry of the pack has stored
BaseStoredBefore(k) ==
    /\ remote.entries[k].kind = 7
    /\ ObjectPath(ToHex(remote.entries[k].base)) \in ProducedBefore(k)

\* entry k is a ref-delta whose base no earlier entry of the pack has stored
BaseMissing(k) ==
    /\ remote.entries[k].kind = 7
    /\ ObjectPath(ToHex(remote.entries[k].base)) \notin ProducedBefore(k)

\* the digests of the objects of the model differ from each other
DigestsDiffer ==
    LET all == {EntryC, EntryT, EntryS, EntryA, EntryB, EntryU, EntryD, EntryDeltaA,
               EntryDeltaB, EntryDeltaT}
    IN  \A e1, e2 \in all : e1 # e2 => Produced(e1) # Produced(e2)

\* C1: for every pack, whatever the kinds (1, 2, 3, 4, 6, 7) of its entries,
\* the cursor idx is at the first header byte of entry k when iteration k
\* starts, an iteration has consumed the whole header of its entry (the 20
\* bytes of base hash of a ref-delta and the offset bytes of an offset-delta
\* with it) when it inflates, and idx is at the trailing checksum when the
\* loop is left.
C1_CursorInSync ==
    remote.magic =>
        /\ pc = "entries" => idx = EntryOffset(count + 1)
        /\ IterationThrew => idx = CompressedOffset(count)
        /\ LoopLeft => idx = EntryOffset(Len(remote.entries) + 1)

\* C2: once the iteration over an entry of kind 6 (offset-delta) or kind 4
\* (tag) has run, the clone has failed there with UnsupportedPackEntry: no
\* later entry is read and the checkout is not entered.
C2_UnsupportedKindFails ==
    \A k \in 1..Len(remote.entries) :
        (Reached(k) /\ remote.entries[k].kind \in {4, 6}) =>
            /\ pc = "failed"
            /\ error = <<"entries", "UnsupportedPackEntry">>
            /\ count = k

\* C3: every ref-delta whose iteration has succeeded is in the store as an
\* object of the kind of its base: under the hash of "<base kind> <length>\0"
\* followed by the reconstructed bytes, and with exactly that content.
C3_DeltaStoredAsBaseKind ==
    \A k \in 1..Len(remote.entries) :
        (Reached(k) /\ remote.entries[k].kind = 7 /\ ~(IterationThrew /\ count = k)) =>
            LET e == remote.entries[k]
                path == ExpectedPath(KindName(e.baseKind), e.target)
            IN  /\ path \in DOMAIN objects
                /\ inflateSync(objects[path], 0).buffer
                       = ExpectedContent(KindName(e.baseKind), e.target)

\* C3 witness: a ref-delta against a tree has been stored
C3_Witness ==
    \E k \in 1..Len(remote.entries) :
        /\ Reached(k)
        /\ remote.entries[k].kind = 7
        /\ remote.entries[k].baseKind = 2
        /\ ~(IterationThrew /\ count = k)
        /\ ExpectedPath(TypeTree, remote.entries[k].target) \in DOMAIN objects

\* C4: once the iteration over a ref-delta has run whose declared
\* sourceLength differs from the length of the payload of its stored base, the
\* clone has failed there with CorruptDelta and no object has been written
\* for the entry.
C4_SourceLengthChecked ==
    \A k \in 1..Len(remote.entries) :
        (/\ Reached(k)
         /\ BaseStoredBefore(k)
         /\ DeltaLengths(remote.entries[k].payload).sourceLength
                # Len(remote.entries[k].basePayload)) =>
            /\ pc = "failed"
            /\ error = <<"entries", "CorruptDelta">>
            /\ count = k
            /\ DOMAIN objects \subseteq ProducedBefore(k)

\* C5: once the iteration over a ref-delta has run whose reconstructed bytes
\* differ in length from its declared targetLength, the clone has failed
\* there with CorruptDelta and no object has been written for the entry: no
\* object stored from a ref-delta has a payload of another length than the
\* one declared.
C5_TargetLengthChecked ==
    \A k \in 1..Len(remote.entries) :
        (/\ Reached(k)
         /\ BaseStoredBefore(k)
         /\ DeltaLengths(remote.entries[k].payload).targetLength
                # Len(remote.entries[k].target)) =>
            /\ pc = "failed"
            /\ error = <<"entries", "CorruptDelta">>
            /\ count = k
            /\ DOMAIN objects \subseteq ProducedBefore(k)

\* C6: when the response has been read and "PACK" does not follow the
\* optional "0008NAK\n", the clone has failed with ProtocolError: no entry is
\* stored and the checkout is never entered.
C6_MissingMagicFails ==
    (~remote.magic /\ byteArray # <<>>) =>
        /\ pc = "failed"
        /\ error = <<"packhdr", "ProtocolError">>
        /\ objects = NoFiles
        /\ workTree = NoFiles

\* C7: once the iteration over a ref-delta has run whose base is not in the
\* store at that moment, the clone has failed there with NotFound (ENOENT)
\* and stays so: no later entry is read or stored, even when the base comes
\* later in the pack, and the checkout writes no file.
C7_MissingBaseIsTerminal ==
    \A k \in 1..Len(remote.entries) :
        (Reached(k) /\ BaseMissing(k)) =>
            /\ pc = "failed"
            /\ error = <<"entries", "ENOENT">>
            /\ count = k
            /\ DOMAIN objects \subseteq ProducedBefore(k)
            /\ workTree = NoFiles
            /\ queue = <<>>

\* C7 witness: the clone has failed on a ref-delta whose base is the entry
\* after it
C7_Witness ==
    \E k \in 1..Len(remote.entries) :
        /\ Reached(k)
        /\ BaseMissing(k)
        /\ k < Len(remote.entries)
        /\ ObjectPath(ToHex(remote.entries[k].base)) \in Produced(remote.entries[k + 1])
        /\ pc = "failed"

\* the hashes the remote advertises
AdvertisedHashes == {remote.advert.refs[k].hash : k \in 1..Len(remote.advert.refs)}

\* the k-th 50 bytes of the request, and the hash in them
WantLine(k) == SubSeq(request, 50 * (k - 1) + 1, 50 * k)
WantedHash(k) == SubSeq(WantLine(k), 10, 49)

\* every advertised ref is in its file under .git
RefsPersisted ==
    \A k \in 1..Len(remote.advert.refs) :
        LET r == remote.advert.refs[k]
        IN  /\ r.name \in DOMAIN gitFiles
            /\ r.name # TextHEAD => gitFiles[r.name] = r.hash \o <<LF>>

\* C10: the body of the upload-pack request is one line "0032want <hash>\n"
\* for each distinct advertised hash, each hash once however many refs share
\* it, then "0000" and "0009done\n"; and there is a request only when the
\* loop over the advertisement is over and every ref is persisted.
C10_WantRequest ==
    request # <<>> =>
        LET n == Cardinality(AdvertisedHashes)
        IN  /\ Len(request) = 50 * n + 13
            /\ \A k \in 1..n : WantLine(k) = TextWant \o WantedHash(k) \o <<LF>>
            /\ {WantedHash(k) : k \in 1..n} = AdvertisedHashes
            /\ SubSeq(request, 50 * n + 1, 50 * n + 13) = Flush \o TextDone
            /\ RefsPersisted
            /\ pc \notin {"start", "refs", "want"}

\* C10 witness: a request for two hashes, one of them advertised by two refs
C10_Witness ==
    /\ request # <<>>
    /\ Cardinality(AdvertisedHashes) = 2
    /\ Len(remote.advert.refs) = 3
    /\ Len(hashSet) = 2

\* ---------------------------------------------------------------------------
\* The copy/insert loop on its own: a base payload and an instruction stream
\* are chosen, and the loop of l.397-430 is applied to them
\* ---------------------------------------------------------------------------

\* the most instructions in a stream
MaxInstr == 2

ShortBase == <<97, 98, 99, 100, 101, 102>>          \* "abcdef"
LongBase == [i \in 1..300 |-> i % 251]

\* copy instructions: no argument; size; offset and size; offsets and sizes
\* of two bytes; an argument byte of 0; every argument
CopyPool ==
    {<<128>>, <<144, 2>>, <<145, 1, 3>>, <<147, 4, 1, 2>>, <<176, 1, 1>>, <<152, 0, 2>>,
     <<208, 3, 0>>, <<255, 2, 1, 0, 0, 4, 0, 0>>}
\* insert instructions: of nothing, of one byte, of three, of bytes above 127
InsertPool == {<<0>>, <<1, 120>>, <<3, 120, 121, 122>>, <<2, 200, 144>>}

DeltaProbes ==
    {[op |-> "delta", base |-> b, stream |-> Concat(is)] :
        b \in {ShortBase, LongBase}, is \in SeqsUpTo(CopyPool \cup InsertPool, MaxInstr)}

\* the variables of the clone, which a probe leaves alone
CloneIdle ==
    /\ remote = <<>>
    /\ pc = "probe"
    /\ error = <<>>
    /\ lines = <<>>
    /\ lineNo = 1
    /\ hashSet = <<>>
    /\ request = <<>>
    /\ byteArray = <<>>
    /\ packCount = 0
    /\ count = 0
    /\ idx = 0
    /\ objects = NoFiles
    /\ gitFiles = NoFiles
    /\ workTree = NoFiles
    /\ queue = <<>>

InitDelta == CloneIdle /\ probe \in DeltaProbes

\* l.395-430: buffer starts empty and the loop runs over the instructions
ApplyDelta ==
    /\ probe.op = "delta"
    /\ probe' = [op |-> "applied", base |-> probe.base, stream |-> probe.stream,
                 out |-> InstructionLoop(probe.stream, 0, probe.base, <<>>)]
    /\ UNCHANGED <<remote, pc, error, lines, lineNo, hashSet, request, byteArray,
                   packCount, count, idx, objects, gitFiles, workTree, queue>>

NextDelta == ApplyDelta

SpecDelta == InitDelta /\ [][NextDelta]_vars

\* The reference semantics of a delta.  For the instruction whose first byte
\* is stream[p]: the bits set among bits 0-6, the argument byte of bit i (the
\* bytes after the first are the arguments of the set bits in ascending
\* order; an unset bit contributes 0), the offset and size of a copy, the
\* length of the instruction and the bytes it appends.
SetBits(c) == {i \in 0..6 : (c \div Pow(2, i)) % 2 = 1}
ArgByte(stream, p, i) ==
    IF i \in SetBits(stream[p])
    THEN stream[p + 1 + Cardinality({j \in SetBits(stream[p]) : j < i})]
    ELSE 0
CopyOffset(stream, p) ==
    ArgByte(stream, p, 0) + 256 * ArgByte(stream, p, 1) + 65536 * ArgByte(stream, p, 2)
    + 16777216 * ArgByte(stream, p, 3)
CopySize(stream, p) ==
    ArgByte(stream, p, 4) + 256 * ArgByte(stream, p, 5) + 65536 * ArgByte(stream, p, 6)
IsCopy(stream, p) == stream[p] >= 128
InstrLen(stream, p) ==
    IF IsCopy(stream, p) THEN 1 + Cardinality(SetBits(stream[p])) ELSE 1 + (stream[p] % 128)
InstrOut(stream, p, base) ==
    IF IsCopy(stream, p)
    THEN SubSeq(base, CopyOffset(stream, p) + 1, CopyOffset(stream, p) + CopySize(stream, p))
    ELSE SubSeq(stream, p + 1, p + (stream[p] % 128))

\* the positions of the first bytes of the instructions from p on
RECURSIVE InstrStarts(_, _)
InstrStarts(stream, p) ==
    IF p > Len(stream) THEN {}
    ELSE {p} \cup (IF p + InstrLen(stream, p) - 1 > Len(stream) THEN {}
                   ELSE InstrStarts(stream, p + InstrLen(stream, p)))

\* every instruction is whole and every copy lies within the base
WellFormed(stream, base) ==
    \A p \in InstrStarts(stream, 1) :
        /\ p + InstrLen(stream, p) - 1 <= Len(stream)
        /\ IsCopy(stream, p) => CopyOffset(stream, p) + CopySize(stream, p) <= Len(base)

\* the concatenation of what the instructions append, in their order
RECURSIVE Reference(_, _, _)
Reference(stream, p, base) ==
    IF p > Len(stream) THEN <<>>
    ELSE InstrOut(stream, p, base) \o Reference(stream, p + InstrLen(stream, p), base)

SizeValues ==
    {0, 15, 16, 127, 128, 2047, 2048, 16383, 16384, 262143, 262144, 2097151, 2097152,
     33554431, 33554432, 268435455, 268435456, 2147483647}

\* what follows an encoding
Trailer == <<120, 200>>

\* A size is kept as its upper part and its lower 25 bits, so that a size of
\* 2^31 or more can be written down.
Upper(v) == v \div 33554432
Lower(v) == v % 33554432

\* the header of an entry of a kind and a size below 2^31
HeaderProbe(kind, v) ==
    [op |-> "header", bytes |-> EntryHeaderBytes(kind, v) \o Trailer, kind |-> kind,
     upper |-> Upper(v), lower |-> Lower(v), n |-> Len(EntryHeaderBytes(kind, v))]

\* the headers of a blob of 2^31 bytes (five bytes) and of 2^32 bytes (six)
HeaderProbesAbove ==
    {[op |-> "header", bytes |-> <<176, 128, 128, 128, 64>> \o Trailer, kind |-> 3,
      upper |-> 64, lower |-> 0, n |-> 5],
     [op |-> "header", bytes |-> <<176, 128, 128, 128, 128, 1>> \o Trailer, kind |-> 3,
      upper |-> 128, lower |-> 0, n |-> 6]}

LengthProbe(v) ==
    [op |-> "length", bytes |-> Varint7(v) \o Trailer, value |-> v, n |-> Len(Varint7(v))]

VarintProbes ==
    {HeaderProbe(kind, v) : kind \in {1, 2, 3, 4, 6, 7}, v \in SizeValues}
    \cup HeaderProbesAbove
    \cup {LengthProbe(v) : v \in SizeValues}

InitVarint == CloneIdle /\ probe \in VarintProbes

\* l.283-299 on the bytes of the probe
ReadHeader ==
    /\ probe.op = "header"
    /\ probe' = [op |-> "headerRead", bytes |-> probe.bytes, kind |-> probe.kind,
                 upper |-> probe.upper, lower |-> probe.lower, n |-> probe.n,
                 result |-> ReadEntryHeader(probe.bytes, 0)]
    /\ UNCHANGED <<remote, pc, error, lines, lineNo, hashSet, request, byteArray,
                   packCount, count, idx, objects, gitFiles, workTree, queue>>

\* l.350-363 on the bytes of the probe
ReadLength ==
    /\ probe.op = "length"
    /\ probe' = [op |-> "lengthRead", bytes |-> probe.bytes, value |-> probe.value,
                 n |-> probe.n, result |-> ReadDeltaLength(probe.bytes, 0)]
    /\ UNCHANGED <<remote, pc, error, lines, lineNo, hashSet, request, byteArray,
                   packCount, count, idx, objects, gitFiles, workTree, queue>>

NextVarint == ReadHeader \/ ReadLength

SpecVarint == InitVarint /\ [][NextVarint]_vars

\* C9: both readers return the encoded value and consume exactly the bytes
\* of the encoding, stopping at the first byte whose bit 7 is clear: at the
\* boundary values and for every size the format carries, those of five and
\* more bytes with them.
C9_ReadersCorrect ==
    /\ probe.op = "headerRead" =>
           /\ probe.result.type = probe.kind
           /\ probe.result.idx = probe.n
           /\ Upper(probe.result.size) = probe.upper
           /\ Lower(probe.result.size) = probe.lower
    /\ probe.op = "lengthRead" =>
           /\ probe.result.dIdx = probe.n
           /\ probe.result.value = probe.value

\* ---------------------------------------------------------------------------
\* The checkout and the ref discovery against what the remote holds
\* ---------------------------------------------------------------------------

\* a file of the work tree as the repository has it
File(data, exec) == [data |-> data, exec |-> exec]

\* the files of the tree T: a.txt, and run (mode 100755) in the directory d
FilesT ==
    Put(Put(NoFiles, <<97, 46, 116, 120, 116>>, File(PayloadA, FALSE)),
        <<100, 47, 114, 117, 110>>, File(PayloadA, TRUE))
\* the file of the tree U: "a b"
FilesU == Put(NoFiles, <<97, 32, 98>>, File(PayloadA, FALSE))

\* the directories below the root of the tree T, with their paths: d/
DirsT == {[hash |-> ToHex(DigestOf(TypeTree, PayloadS)), path |-> <<100, 47>>]}

\* the commit the advertised HEAD is at
HeadIsC == remote.advert.refs[1] = Ref(HashC, TextHEAD)
HeadIsD == remote.advert.refs[1] = Ref(HashD, TextHEAD)

\* the files, and the directories below the root, of the commit HEAD is at
HeadFiles == IF HeadIsD THEN FilesU ELSE FilesT
HeadDirs == IF HeadIsD THEN {} ELSE DirsT

\* whether a mode given to chmod has the owner's executable bit
ExecBit(mode) == (mode \div 64) % 2 = 1

\* C11: the checkout materialises exactly the tree reachable from HEAD.  The
\* queue starts with the root tree of the commit HEAD resolves to and holds
\* nothing but directories of that tree, each once, with its path; a file is
\* written only at the path of a non-directory entry, with the payload of its
\* blob and the executable bit of mode 100755; and when the traversal is
\* over there is such a file for every non-directory entry.
C11_CheckoutMaterialises ==
    (pc \in {"checkout", "done"} /\ (HeadIsC \/ HeadIsD)) =>
        /\ \A k \in 1..Len(queue) :
               /\ queue[k] \in HeadDirs
                      \cup {[hash |-> ToHex(DigestOf(TypeTree, IF HeadIsD THEN PayloadU
                                                                ELSE PayloadT)),
                             path |-> <<>>]}
               /\ \A j \in 1..Len(queue) : queue[j] = queue[k] => j = k
        /\ \A p \in DOMAIN workTree :
               /\ p \in DOMAIN HeadFiles
               /\ workTree[p].data = HeadFiles[p].data
               /\ ExecBit(workTree[p].mode) = HeadFiles[p].exec
        /\ pc = "done" => DOMAIN workTree = DOMAIN HeadFiles

\* the ref path of the capability "symref=HEAD:<refpath>" of the
\* advertisement, <<>> without one
SymrefPath ==
    IF \E k \in 1..Len(remote.advert.caps) : remote.advert.caps[k] = CapSymrefM
    THEN RefM ELSE <<>>

\* the content of the HEAD file for the advertised HEAD r
HeadContent(r) ==
    IF SymrefPath # <<>> THEN <<114, 101, 102, 58, 32>> \o SymrefPath \o <<LF>>
    ELSE r.hash \o <<LF>>

\* the loop over the advertisement is over
DiscoveryOver == pc \notin {"start", "refs"}

\* C12: the HEAD file is "ref: <refpath>\n", and not a hash, when the
\* capabilities of the HEAD line hold "symref=HEAD:<refpath>", and the
\* advertised hash of HEAD without such a capability; every other advertised
\* ref is in the file of its path with "<hash>\n".  The files hold this from
\* the moment they are written, and all of them are written when the
\* discovery is over.
C12_RefsPersisted ==
    \A k \in 1..Len(remote.advert.refs) :
        LET r == remote.advert.refs[k]
        IN  /\ DiscoveryOver => r.name \in DOMAIN gitFiles
            /\ r.name \in DOMAIN gitFiles =>
                   gitFiles[r.name] = IF r.name = TextHEAD THEN HeadContent(r)
                                      ELSE r.hash \o <<LF>>

\* C12 witness: the discovery is over with a symbolic HEAD persisted for an
\* advertisement whose symref is not its first capability
C12_Witness ==
    /\ DiscoveryOver
    /\ remote.advert = AdvertSymbolic
    /\ gitFiles[TextHEAD] = <<114, 101, 102, 58, 32>> \o RefM \o <<LF>>
    /\ gitFiles[RefM] = HashC \o <<LF>>

====
